---- MODULE Spec2Model ----
(* Model of icloud_contacts_organizer.utils._logging: the logger           *)
(* provisioning function get_logger, the ArcpyHandler sink, and the        *)
(* record dispatch of the logging registry they configure.                 *)
EXTENDS Integers, Sequences, FiniteSets, TLC

VARIABLES level, propagate, handlers, dirs, arcpy, last, out, thr

vars == <<level, propagate, handlers, dirs, arcpy, last, out, thr>>

(* ---------------------------------------------------------------------- *)
(* Bounds                                                                  *)
(* ---------------------------------------------------------------------- *)
MaxHandlers == 2

(* ---------------------------------------------------------------------- *)
(* Loggers of the process-wide registry                                    *)
(* ---------------------------------------------------------------------- *)
NoName == "None"
Loggers == {"root", "demo"}
NameArgs == {NoName, "demo"}

(* logging.getLogger called without the name *)
getLogger_Root(logger_name) == "root"

getLogger(logger_name) == IF logger_name = NoName THEN "root" ELSE logger_name

Parent(n) == IF n = "root" THEN "none" ELSE "root"

(* ---------------------------------------------------------------------- *)
(* Level arguments: a value with its Python type                           *)
(* ---------------------------------------------------------------------- *)
StrLevel(s) == [type |-> "str", s |-> s, i |-> 0]
IntLevel(i) == [type |-> "int", s |-> "", i |-> i]
NoneLevel == [type |-> "NoneType", s |-> "", i |-> 0]
FloatLevel(i) == [type |-> "float", s |-> "", i |-> i]

log_str_lst == {"DEBUG", "INFO", "WARNING", "ERROR", "CRITICAL", "WARN", "FATAL"}
log_int_lst == {0, 10, 20, 30, 40, 50}

LevelArgs ==
    {StrLevel(s) : s \in log_str_lst \cup {"TRACE", "debug"}}
        \cup {IntLevel(i) : i \in log_int_lst \cup {99, 25}}
        \cup {NoneLevel, FloatLevel(10)}

(* the validation without its integer branch *)
LevelError_NoIntCheck(lv) ==
    IF lv.type \notin {"str", "int"} THEN TRUE
    ELSE IF lv.type = "str" /\ lv.s \notin log_str_lst THEN TRUE
    ELSE FALSE

(* the three raise branches that open get_logger *)
LevelError(lv) ==
    IF lv.type \notin {"str", "int"} THEN TRUE
    ELSE IF lv.type = "str" /\ lv.s \notin log_str_lst THEN TRUE
    ELSE IF lv.type = "int" /\ lv.i \notin log_int_lst THEN TRUE
    ELSE FALSE

(* a level table that lacks the aliases WARN and FATAL *)
nameToLevel_NoAlias(s) ==
    CASE s = "DEBUG" -> 10
      [] s = "INFO" -> 20
      [] s = "WARNING" -> 30
      [] s = "ERROR" -> 40
      [] s = "CRITICAL" -> 50
      [] OTHER -> 0

(* Logger.setLevel: the numeric threshold of a level argument *)
nameToLevel(s) ==
    CASE s = "DEBUG" -> 10
      [] s = "INFO" -> 20
      [] s \in {"WARNING", "WARN"} -> 30
      [] s = "ERROR" -> 40
      [] s \in {"CRITICAL", "FATAL"} -> 50
      [] OTHER -> 0

checkLevel(lv) == IF lv.type = "int" THEN lv.i ELSE nameToLevel(lv.s)

(* Logger.getEffectiveLevel: the first non-zero threshold up the hierarchy *)
RECURSIVE EffectiveLevel(_, _)
EffectiveLevel(lvls, n) ==
    IF lvls[n] # 0 THEN lvls[n]
    ELSE IF Parent(n) = "none" THEN 0
    ELSE EffectiveLevel(lvls, Parent(n))

getEffectiveLevel(n) == EffectiveLevel(level, n)

(* ---------------------------------------------------------------------- *)
(* Formats and sinks                                                       *)
(* ---------------------------------------------------------------------- *)
DefaultFormat == <<"asctime", "name", "levelname", "message">>
ShortFormat == <<"levelname", "message">>
Formats == {DefaultFormat, ShortFormat}

NewStreamHandler == [kind |-> "StreamHandler", level |-> 0, fmt |-> <<"message">>, dest |-> "stderr"]
NewArcpyHandler == [kind |-> "ArcpyHandler", level |-> 10, fmt |-> <<"message">>, dest |-> "arcpy"]
NewFileHandler(path) == [kind |-> "FileHandler", level |-> 0, fmt |-> <<"message">>, dest |-> path.file]

setFormatter(h, fmt) == [h EXCEPT !.fmt = fmt]

(* isinstance(h, logging.StreamHandler): FileHandler derives from StreamHandler *)
IsStreamHandler(h) == h.kind \in {"StreamHandler", "FileHandler"}

IsConsole(h) == h.kind = "StreamHandler"
IsFile(h) == h.kind = "FileHandler"
IsArcpy(h) == h.kind = "ArcpyHandler"

Count(hs, P(_)) == Cardinality({k \in 1..Len(hs) : P(hs[k])})

(* next((h for h in logger.handlers if isinstance(...)), None): index, 0 = None *)
FindStreamHandler(hs) ==
    IF \E k \in 1..Len(hs) : IsStreamHandler(hs[k])
    THEN CHOOSE k \in 1..Len(hs) :
            IsStreamHandler(hs[k]) /\ \A j \in 1..(k - 1) : ~IsStreamHandler(hs[j])
    ELSE 0

(* the add_stream_handler block *)
StreamStep(hs, fmt, add_stream_handler) ==
    IF ~add_stream_handler THEN hs
    ELSE LET k == FindStreamHandler(hs)
             hs1 == IF k = 0 THEN Append(hs, NewStreamHandler) ELSE hs
             k1 == IF k = 0 THEN Len(hs1) ELSE k
         IN [hs1 EXCEPT ![k1] = setFormatter(hs1[k1], fmt)]

(* ArcpyHandler.__init__: raises where find_spec("arcpy") is None *)
ArcpyHandlerInit(available) == IF available THEN "ok" ELSE "EnvironmentError"

(* the add_arcpy_handler block without its find_spec("arcpy") test *)
ArcpyStep_NoProbe(hs, fmt, add_arcpy_handler, available) ==
    IF add_arcpy_handler
    THEN IF ArcpyHandlerInit(available) = "ok"
         THEN [result |-> "ok", hs |-> Append(hs, setFormatter(NewArcpyHandler, fmt))]
         ELSE [result |-> "EnvironmentError", hs |-> hs]
    ELSE [result |-> "ok", hs |-> hs]

(* the add_arcpy_handler block; find_spec("arcpy") is the arcpy variable *)
ArcpyStep(hs, fmt, add_arcpy_handler, available) ==
    IF available /\ add_arcpy_handler
    THEN IF ArcpyHandlerInit(available) = "ok"
         THEN [result |-> "ok", hs |-> Append(hs, setFormatter(NewArcpyHandler, fmt))]
         ELSE [result |-> "EnvironmentError", hs |-> hs]
    ELSE [result |-> "ok", hs |-> hs]

(* ---------------------------------------------------------------------- *)
(* Filesystem                                                              *)
(* ---------------------------------------------------------------------- *)
InitDirs == {".", "ro"}
ReadOnlyDirs == {"ro"}

DirParent(d) ==
    CASE d = "data/logs" -> "data"
      [] d = "ro/logs" -> "ro"
      [] OTHER -> "."

(* d and its ancestors up to the working directory *)
Ancestors(d) == {d, DirParent(d), DirParent(DirParent(d))}

NoPath == [type |-> "NoneType", parent |-> ".", file |-> "none"]
PathArg(type, parent, file) == [type |-> type, parent |-> parent, file |-> file]

PathArgs ==
    {NoPath,
     PathArg("Path", "data/logs", "data/logs/run.log"),
     PathArg("Path", "ro", "ro/run.log"),
     PathArg("Path", "ro/logs", "ro/logs/run.log"),
     PathArg("str", "data/logs", "data/logs/run.log")}

(* Path.mkdir(parents=True): fails when a missing directory has a read-only parent *)
MkdirFails(d, ds) ==
    \E a \in Ancestors(d) : a \notin ds /\ DirParent(a) \in ReadOnlyDirs

(* open(path, "a") inside logging.FileHandler *)
OpenFails(path, ds) == path.parent \in ReadOnlyDirs \/ path.parent \notin ds

(* the logfile_path block: result, directories, sinks *)
FileStep(hs, fmt, path, ds) ==
    IF path.type = "NoneType" THEN [result |-> "ok", dirs |-> ds, hs |-> hs]
    ELSE IF path.type = "str" THEN [result |-> "AttributeError", dirs |-> ds, hs |-> hs]
    ELSE IF path.parent \notin ds /\ MkdirFails(path.parent, ds)
         THEN [result |-> "OSError", dirs |-> ds, hs |-> hs]
    ELSE LET ds1 == IF path.parent \notin ds THEN ds \cup Ancestors(path.parent) ELSE ds
         IN IF OpenFails(path, ds1)
            THEN [result |-> "OSError", dirs |-> ds1, hs |-> hs]
            ELSE [result |-> "ok", dirs |-> ds1,
                  hs |-> Append(hs, setFormatter(NewFileHandler(path), fmt))]

(* ---------------------------------------------------------------------- *)
(* Initial state: the logging module as imported                           *)
(* ---------------------------------------------------------------------- *)
NoArgs == [op |-> "none"]
Idle == [pc |-> "idle", found |-> 0, args |-> NoArgs]
Threads == {1, 2}

NoCall == [op |-> "none"]

Init ==
    /\ level = [n \in Loggers |-> IF n = "root" THEN 30 ELSE 0]
    /\ propagate = [n \in Loggers |-> TRUE]
    /\ handlers = [n \in Loggers |-> <<>>]
    /\ dirs = InitDirs
    /\ arcpy \in BOOLEAN
    /\ last = NoCall
    /\ out = <<>>
    /\ thr = [t \in Threads |-> Idle]

(* ---------------------------------------------------------------------- *)
(* get_logger, as one call                                                 *)
(* ---------------------------------------------------------------------- *)
CallArgs(logger_name, lv, logfile_path, log_format, prop, add_stream_handler, add_arcpy_handler) ==
    [op |-> "get_logger", logger_name |-> logger_name, level |-> lv,
     logfile_path |-> logfile_path, log_format |-> log_format, propagate |-> prop,
     add_stream_handler |-> add_stream_handler, add_arcpy_handler |-> add_arcpy_handler]

Returned(args, result) == [op |-> "get_logger", args |-> args, result |-> result]

get_logger(logger_name, lv, logfile_path, log_format, prop, add_stream_handler, add_arcpy_handler) ==
    LET args == CallArgs(logger_name, lv, logfile_path, log_format, prop,
                         add_stream_handler, add_arcpy_handler)
        n == getLogger(logger_name)
    IN IF LevelError(lv)
       THEN /\ last' = Returned(args, "ValueError")
            /\ UNCHANGED <<level, propagate, handlers, dirs>>
       ELSE LET hs1 == StreamStep(handlers[n], log_format, add_stream_handler)
                a == ArcpyStep(hs1, log_format, add_arcpy_handler, arcpy)
                f == IF a.result = "ok"
                     THEN FileStep(a.hs, log_format, logfile_path, dirs)
                     ELSE [result |-> a.result, dirs |-> dirs, hs |-> a.hs]
            IN /\ Len(f.hs) <= MaxHandlers
               /\ level' = [level EXCEPT ![n] = checkLevel(lv)]
               /\ propagate' = [propagate EXCEPT ![n] = prop]
               /\ handlers' = [handlers EXCEPT ![n] = f.hs]
               /\ dirs' = f.dirs
               /\ last' = Returned(args, f.result)

(* ---------------------------------------------------------------------- *)
(* Logging a record through a logger: Logger.log, callHandlers, emit       *)
(* ---------------------------------------------------------------------- *)
RecordLevels == {10, 20, 25, 30, 40, 50}

getLevelName(levelno) ==
    CASE levelno = 10 -> "DEBUG"
      [] levelno = 20 -> "INFO"
      [] levelno = 30 -> "WARNING"
      [] levelno = 40 -> "ERROR"
      [] levelno = 50 -> "CRITICAL"
      [] OTHER -> "Level n"

(* Formatter.format: the record's value for each field of the format *)
FieldValue(field, n, levelno) ==
    CASE field = "name" -> n
      [] field = "levelname" -> getLevelName(levelno)
      [] OTHER -> field

Format(fmt, n, levelno) == [k \in 1..Len(fmt) |-> FieldValue(fmt[k], n, levelno)]

(* ArcpyHandler.emit: the arcpy function that receives the message *)
ArcpyChannel(levelno) ==
    IF levelno <= 20 THEN "AddMessage"
    ELSE IF levelno = 30 THEN "AddWarning"
    ELSE "AddError"

(* Handler.emit of one sink for a record of logger n *)
Emit(h, owner, n, levelno) ==
    [kind |-> h.kind, owner |-> owner,
     dest |-> IF h.kind = "ArcpyHandler" THEN ArcpyChannel(levelno) ELSE h.dest,
     text |-> Format(h.fmt, n, levelno)]

RECURSIVE EmitAll(_, _, _, _)
EmitAll(hs, owner, n, levelno) ==
    IF hs = <<>> THEN <<>>
    ELSE (IF levelno >= Head(hs).level
          THEN <<Emit(Head(hs), owner, n, levelno)>>
          ELSE <<>>) \o EmitAll(Tail(hs), owner, n, levelno)

(* Logger.callHandlers: the sinks of the logger, then of its ancestors     *)
(* while the propagation flag is set                                       *)
RECURSIVE CallHandlers(_, _, _)
CallHandlers(c, n, levelno) ==
    EmitAll(handlers[c], c, n, levelno)
        \o (IF propagate[c] /\ Parent(c) # "none"
            THEN CallHandlers(Parent(c), n, levelno)
            ELSE <<>>)

RECURSIVE Found(_)
Found(c) ==
    Len(handlers[c]) + (IF propagate[c] /\ Parent(c) # "none" THEN Found(Parent(c)) ELSE 0)

(* logging.lastResort: stderr at WARNING, used when no sink was found *)
LastResort(n, levelno) ==
    IF levelno >= 30
    THEN <<[kind |-> "StreamHandler", owner |-> "lastResort", dest |-> "stderr",
            text |-> Format(<<"message">>, n, levelno)]>>
    ELSE <<>>

log(n, levelno) ==
    /\ out' = IF levelno >= getEffectiveLevel(n)
              THEN IF Found(n) = 0 THEN LastResort(n, levelno)
                   ELSE CallHandlers(n, n, levelno)
              ELSE <<>>
    /\ last' = [op |-> "log", logger_name |-> n, levelno |-> levelno]
    /\ UNCHANGED <<level, propagate, handlers, dirs, arcpy, thr>>

(* ---------------------------------------------------------------------- *)
(* Spec: sink provisioning of one named logger, and direct construction    *)
(* of the ArcPy sink                                                       *)
(* ---------------------------------------------------------------------- *)
SinkLevelArgs == {StrLevel("INFO"), StrLevel("ERROR"), StrLevel("TRACE")}

GetLogger ==
    \E lv \in SinkLevelArgs, logfile_path \in PathArgs, log_format \in Formats,
       prop \in BOOLEAN, add_stream_handler \in BOOLEAN, add_arcpy_handler \in BOOLEAN :
        /\ get_logger("demo", lv, logfile_path, log_format, prop,
                      add_stream_handler, add_arcpy_handler)
        /\ out' = <<>>
        /\ UNCHANGED <<arcpy, thr>>

(* ah = ArcpyHandler() outside get_logger *)
NewArcpyHandlerCall ==
    /\ last' = [op |-> "ArcpyHandler", result |-> ArcpyHandlerInit(arcpy)]
    /\ out' = <<>>
    /\ UNCHANGED <<level, propagate, handlers, dirs, arcpy, thr>>

Log == \E levelno \in RecordLevels : log("demo", levelno)

Next == GetLogger \/ NewArcpyHandlerCall \/ Log

Spec == Init /\ [][Next]_vars

(* ---------------------------------------------------------------------- *)
(* SpecLevels: every level argument, on the root and on a named logger     *)
(* ---------------------------------------------------------------------- *)
InitLevels ==
    /\ level = [n \in Loggers |-> IF n = "root" THEN 30 ELSE 0]
    /\ propagate = [n \in Loggers |-> TRUE]
    /\ handlers = [n \in Loggers |-> <<>>]
    /\ dirs = InitDirs
    /\ arcpy = FALSE
    /\ last = NoCall
    /\ out = <<>>
    /\ thr = [t \in Threads |-> Idle]

GetLoggerLevel ==
    \E logger_name \in NameArgs, lv \in LevelArgs, prop \in BOOLEAN,
       add_stream_handler \in BOOLEAN :
        /\ get_logger(logger_name, lv, NoPath, DefaultFormat, prop,
                      add_stream_handler, FALSE)
        /\ out' = <<>>
        /\ UNCHANGED <<arcpy, thr>>

NextLevels == GetLoggerLevel

SpecLevels == InitLevels /\ [][NextLevels]_vars

(* ---------------------------------------------------------------------- *)
(* SpecLog: the root and a named logger provisioned with console and file  *)
(* sinks, and records logged through both                                  *)
(* ---------------------------------------------------------------------- *)
LogLevelArgs ==
    {StrLevel("DEBUG"), StrLevel("INFO"), StrLevel("WARNING"), IntLevel(0), StrLevel("TRACE")}
LogPathArgs == {NoPath, PathArg("Path", "data/logs", "data/logs/run.log")}

GetLoggerLog ==
    \E logger_name \in NameArgs, lv \in LogLevelArgs, logfile_path \in LogPathArgs,
       prop \in BOOLEAN, add_stream_handler \in BOOLEAN :
        /\ get_logger(logger_name, lv, logfile_path, DefaultFormat, prop,
                      add_stream_handler, FALSE)
        /\ out' = <<>>
        /\ UNCHANGED <<arcpy, thr>>

LogRecord == \E n \in Loggers, levelno \in RecordLevels : log(n, levelno)

NextLog == GetLoggerLog \/ LogRecord

SpecLog == InitLevels /\ [][NextLog]_vars

(* ---------------------------------------------------------------------- *)
(* SpecThreads: get_logger called from two threads; a thread may be        *)
(* preempted between any two statements of the function                    *)
(* ---------------------------------------------------------------------- *)
ThreadLevelArgs == {StrLevel("INFO"), StrLevel("ERROR")}

At(t, pc) == thr[t].pc = pc
Goto(t, pc) == [thr EXCEPT ![t].pc = pc]

(* the call, the level validation, logging.getLogger and Logger.setLevel *)
TCall(t) ==
    /\ At(t, "idle")
    /\ \E lv \in ThreadLevelArgs, add_stream_handler \in BOOLEAN :
          /\ thr' = [thr EXCEPT ![t] =
                        [pc |-> "propagate", found |-> 0,
                         args |-> CallArgs("demo", lv, NoPath, DefaultFormat, TRUE,
                                           add_stream_handler, FALSE)]]
          /\ level' = [level EXCEPT ![getLogger("demo")] = checkLevel(lv)]
    /\ UNCHANGED <<propagate, handlers, dirs, arcpy, last, out>>

(* logger.propagate = propagate *)
TPropagate(t) ==
    /\ At(t, "propagate")
    /\ propagate' = [propagate EXCEPT ![getLogger(thr[t].args.logger_name)] = thr[t].args.propagate]
    /\ thr' = Goto(t, IF thr[t].args.add_stream_handler THEN "scan" ELSE "rest")
    /\ UNCHANGED <<level, handlers, dirs, arcpy, last, out>>

(* stream_handler = next((h for h in logger.handlers if ...), None) *)
TScan(t) ==
    /\ At(t, "scan")
    /\ LET k == FindStreamHandler(handlers[getLogger(thr[t].args.logger_name)])
       IN thr' = [thr EXCEPT ![t].found = k,
                             ![t].pc = IF k = 0 THEN "attach" ELSE "format"]
    /\ UNCHANGED <<level, propagate, handlers, dirs, arcpy, last, out>>

(* stream_handler = logging.StreamHandler(); logger.addHandler(stream_handler) *)
TAttach(t) ==
    /\ At(t, "attach")
    /\ LET n == getLogger(thr[t].args.logger_name)
       IN /\ Len(handlers[n]) < MaxHandlers
          /\ handlers' = [handlers EXCEPT ![n] = Append(@, NewStreamHandler)]
          /\ thr' = [thr EXCEPT ![t].found = Len(handlers[n]) + 1, ![t].pc = "format"]
    /\ UNCHANGED <<level, propagate, dirs, arcpy, last, out>>

(* stream_handler.setFormatter(log_frmt) *)
TSetFormatter(t) ==
    /\ At(t, "format")
    /\ LET n == getLogger(thr[t].args.logger_name)
       IN handlers' = [handlers EXCEPT ![n][thr[t].found] =
                          setFormatter(@, thr[t].args.log_format)]
    /\ thr' = Goto(t, "rest")
    /\ UNCHANGED <<level, propagate, dirs, arcpy, last, out>>

(* the add_arcpy_handler block, the logfile_path block and the return *)
TReturn(t) ==
    /\ At(t, "rest")
    /\ LET n == getLogger(thr[t].args.logger_name)
           a == ArcpyStep(handlers[n], thr[t].args.log_format,
                          thr[t].args.add_arcpy_handler, arcpy)
           f == IF a.result = "ok"
                THEN FileStep(a.hs, thr[t].args.log_format, thr[t].args.logfile_path, dirs)
                ELSE [result |-> a.result, dirs |-> dirs, hs |-> a.hs]
       IN /\ Len(f.hs) <= MaxHandlers
          /\ handlers' = [handlers EXCEPT ![n] = f.hs]
          /\ dirs' = f.dirs
          /\ last' = Returned(thr[t].args, f.result)
    /\ thr' = [thr EXCEPT ![t] = [Idle EXCEPT !.pc = "returned", !.args = thr[t].args]]
    /\ UNCHANGED <<level, propagate, arcpy, out>>

NextThreads ==
    \E t \in Threads :
        \/ TCall(t)
        \/ TPropagate(t)
        \/ TScan(t)
        \/ TAttach(t)
        \/ TSetFormatter(t)
        \/ TReturn(t)

SpecThreads == InitLevels /\ [][NextThreads]_vars

(* C4: when the threads call get_logger with the same name, once every     *)
(* thread that asked for the console sink has returned the logger holds    *)
(* exactly one console sink, and at no point of any interleaving does it   *)
(* hold two.                                                               *)
C4_OneConsoleSinkUnderThreads ==
    /\ Count(handlers["demo"], IsConsole) <= 1
    /\ (\A t \in Threads : At(t, "returned") /\ thr[t].args.add_stream_handler)
          => Count(handlers["demo"], IsConsole) = 1

(* ---------------------------------------------------------------------- *)
(* Properties of sink provisioning (Spec)                                  *)
(* ---------------------------------------------------------------------- *)
IsCall == last.op = "get_logger"
Target == getLogger(last.args.logger_name)

(* C1: after a successful get_logger call with add_stream_handler=true the *)
(* logger holds exactly one console sink, whatever calls were made on the  *)
(* name before, and no logger ever holds two console sinks.                *)
C1_ExactlyOneConsoleSink ==
    /\ \A n \in Loggers : Count(handlers[n], IsConsole) <= 1
    /\ (IsCall /\ last.result = "ok" /\ last.args.add_stream_handler)
          => Count(handlers[Target], IsConsole) = 1

(* C3: a get_logger call that fails with the invalid-level error or with a *)
(* filesystem error (directory creation, file open) leaves the threshold,  *)
(* the propagation flag and the sinks of every logger as they were.        *)
C3_FailedCallLeavesState ==
    [][(last'.op = "get_logger" /\ last'.result \in {"ValueError", "OSError"})
          => UNCHANGED <<level, propagate, handlers>>]_vars

(* C7: a get_logger call with a valid level and a logfile_path, given as a *)
(* path object or as a string, whose parent directory is missing and can   *)
(* be created, returns normally, creates the directory with its            *)
(* intermediate directories and attaches exactly one more file sink.       *)
C7_FileSinkPerCall ==
    [][(/\ last'.op = "get_logger"
        /\ last'.args.level.s \in log_str_lst
        /\ last'.args.logfile_path.type \in {"Path", "str"}
        /\ last'.args.logfile_path.parent = "data/logs")
          => /\ last'.result = "ok"
             /\ {"data", "data/logs"} \subseteq dirs'
             /\ Count(handlers'["demo"], IsFile) = Count(handlers["demo"], IsFile) + 1]_vars

(* C8: where arcpy is not available, get_logger never raises the           *)
(* environment error and attaches no ArcPy sink, a call asking for the     *)
(* ArcPy sink with a valid level and no logfile returns normally, and      *)
(* constructing ArcpyHandler directly raises the environment error and     *)
(* changes no logger.                                                      *)
C8_HostBridgeUnavailable ==
    [][~arcpy
          => /\ \A n \in Loggers : Count(handlers'[n], IsArcpy) = 0
             /\ last'.op = "get_logger"
                  => /\ last'.result # "EnvironmentError"
                     /\ (/\ last'.args.add_arcpy_handler
                         /\ last'.args.level.s \in log_str_lst
                         /\ last'.args.logfile_path.type = "NoneType")
                          => last'.result = "ok"
             /\ last'.op = "ArcpyHandler"
                  => /\ last'.result = "EnvironmentError"
                     /\ UNCHANGED <<level, propagate, handlers>>]_vars

C8_Witness ==
    /\ ~arcpy
    /\ IsCall
    /\ last.args.add_arcpy_handler
    /\ last.result = "ok"
    /\ handlers["demo"] # <<>>

(* C9: every line the ArcPy sink emits goes to the channel of the record's *)
(* severity: DEBUG and INFO to AddMessage, WARNING to AddWarning, every    *)
(* severity above WARNING to AddError, and no severity below WARNING to    *)
(* AddError.                                                               *)
C9_SeverityRouting ==
    last.op = "log"
        => \A k \in 1..Len(out) :
              out[k].kind = "ArcpyHandler"
                  => /\ last.levelno \in {10, 20} => out[k].dest = "AddMessage"
                     /\ last.levelno = 30 => out[k].dest = "AddWarning"
                     /\ last.levelno > 30 => out[k].dest = "AddError"
                     /\ last.levelno < 30 => out[k].dest # "AddError"

(* C11: a get_logger call with add_stream_handler=true that returns        *)
(* normally changes no sink the logger already holds other than its        *)
(* console sink: every file sink and every ArcPy sink keeps its formatter, *)
(* so that no file sink is the sink the call reuses.                       *)
C11_OnlyConsoleSinkReformatted ==
    [][(last'.op = "get_logger" /\ last'.args.add_stream_handler /\ last'.result = "ok")
          => \A k \in 1..Len(handlers["demo"]) :
                ~IsConsole(handlers["demo"][k])
                    => handlers'["demo"][k] = handlers["demo"][k]]_vars

(* ---------------------------------------------------------------------- *)
(* Properties of level handling (SpecLevels) and logger identity (SpecLog) *)
(* ---------------------------------------------------------------------- *)
Recognized(lv) ==
    \/ lv.type = "str" /\ lv.s \in {"DEBUG", "INFO", "WARNING", "ERROR", "CRITICAL", "WARN", "FATAL"}
    \/ lv.type = "int" /\ lv.i \in {0, 10, 20, 30, 40, 50}

RequestedSeverity(lv) ==
    IF lv.type = "int" THEN lv.i
    ELSE CASE lv.s = "DEBUG" -> 10
           [] lv.s = "INFO" -> 20
           [] lv.s = "WARNING" -> 30
           [] lv.s = "WARN" -> 30
           [] lv.s = "ERROR" -> 40
           [] lv.s = "CRITICAL" -> 50
           [] lv.s = "FATAL" -> 50

Identity(logger_name) == IF logger_name = NoName THEN "root" ELSE logger_name

(* C2: a get_logger call whose level is neither a recognized name nor a    *)
(* recognized integer code raises the invalid-level error and changes no   *)
(* threshold, no propagation flag, no sink and no directory.               *)
C2_InvalidLevelRejected ==
    [][(last'.op = "get_logger" /\ ~Recognized(last'.args.level))
          => /\ last'.result = "ValueError"
             /\ UNCHANGED <<level, propagate, handlers, dirs>>]_vars

C2_Witness ==
    /\ IsCall
    /\ ~Recognized(last.args.level)
    /\ last.result = "ValueError"
    /\ handlers[Identity(last.args.logger_name)] # <<>>
    /\ level[Identity(last.args.logger_name)] = 10
    /\ ~propagate[Identity(last.args.logger_name)]

(* C5 as claimed: for every recognized level and every logger name the     *)
(* call succeeds and the logger's effective threshold is the requested     *)
(* level, whatever the thresholds of its ancestors.                        *)
C5_EffectiveThreshold ==
    (IsCall /\ Recognized(last.args.level))
        => /\ last.result = "ok"
           /\ getEffectiveLevel(Identity(last.args.logger_name))
                = RequestedSeverity(last.args.level)

(* C5 as amended: for every recognized level and every logger name the     *)
(* call succeeds and the logger's own threshold is the requested level;    *)
(* its effective threshold is the requested level when that level is not   *)
(* 0 or the logger is the root, and is the effective threshold of the      *)
(* parent when level 0 is set on a named logger.                           *)
C5_ThresholdSet ==
    (IsCall /\ Recognized(last.args.level))
        => LET n == Identity(last.args.logger_name)
               L == RequestedSeverity(last.args.level)
           IN /\ last.result = "ok"
              /\ level[n] = L
              /\ (L # 0 \/ n = "root") => getEffectiveLevel(n) = L
              /\ (L = 0 /\ n # "root") => getEffectiveLevel(n) = getEffectiveLevel("root")

C5_Witness ==
    /\ IsCall
    /\ last.args.level = StrLevel("WARN")
    /\ last.args.logger_name = "demo"
    /\ last.result = "ok"
    /\ level["root"] = 50
    /\ getEffectiveLevel("demo") = 30

(* C10: a successful get_logger call sets the threshold and the            *)
(* propagation flag of the logger its name identifies to the values of     *)
(* that call and keeps every sink the logger had, in order; no call        *)
(* changes the threshold, the propagation flag or the sinks of a logger    *)
(* with another name.                                                      *)
C10_SharedIdentity ==
    [][last'.op = "get_logger"
          => LET n == Identity(last'.args.logger_name)
             IN /\ \A m \in Loggers \ {n} :
                      /\ level'[m] = level[m]
                      /\ propagate'[m] = propagate[m]
                      /\ handlers'[m] = handlers[m]
                /\ last'.result = "ok"
                     => /\ level'[n] = RequestedSeverity(last'.args.level)
                        /\ propagate'[n] = last'.args.propagate
                        /\ Len(handlers'[n]) >= Len(handlers[n])
                        /\ \A k \in 1..Len(handlers[n]) :
                              /\ handlers'[n][k].kind = handlers[n][k].kind
                              /\ handlers'[n][k].dest = handlers[n][k].dest]_vars

C10_Witness ==
    /\ IsCall
    /\ last.result = "ok"
    /\ last.args.logger_name = "demo"
    /\ ~last.args.add_stream_handler
    /\ handlers["demo"] # <<>>
    /\ handlers["root"] # <<>>
    /\ Count(handlers["demo"], IsFile) = 1
    /\ Count(handlers["demo"], IsConsole) = 1
    /\ level["demo"] = 30 /\ level["root"] = 10
    /\ ~propagate["demo"] /\ propagate["root"]

(* ---------------------------------------------------------------------- *)
(* Properties of logged records (SpecLog)                                  *)
(* ---------------------------------------------------------------------- *)
ConsoleLines == {k \in 1..Len(out) : out[k].dest = "stderr"}

Contains(text, v) == \E k \in 1..Len(text) : text[k] = v

(* C6: for a logger holding its own console sink, a non-zero threshold L   *)
(* and the default propagation, whatever sinks its ancestors hold, a       *)
(* record below L produces no output on any sink and a record at or above  *)
(* L produces exactly one console line, which contains the level name and  *)
(* the logger name.                                                        *)
C6_OneConsoleLine ==
    (/\ last.op = "log"
     /\ Count(handlers[last.logger_name], IsConsole) = 1
     /\ level[last.logger_name] # 0
     /\ propagate[last.logger_name])
        => /\ last.levelno < level[last.logger_name] => out = <<>>
           /\ last.levelno >= level[last.logger_name]
                => /\ Cardinality(ConsoleLines) = 1
                   /\ \A k \in ConsoleLines :
                         /\ Contains(out[k].text, getLevelName(last.levelno))
                         /\ Contains(out[k].text, last.logger_name)

(* C12: with the named logger provisioned as a package logger (level       *)
(* DEBUG, no sink of its own, propagation on) and the root provisioned     *)
(* with a non-zero level L and a console or file sink, no sink of the root *)
(* writes a record of severity below L, whichever logger the record was    *)
(* logged through.                                                         *)
C12_RootThresholdFilters ==
    (/\ last.op = "log"
     /\ level["demo"] = 10
     /\ handlers["demo"] = <<>>
     /\ propagate["demo"]
     /\ level["root"] # 0
     /\ propagate["root"]
     /\ handlers["root"] # <<>>)
        => \A k \in 1..Len(out) :
              out[k].owner = "root" => last.levelno >= level["root"]

====
